---- MODULE Spec2Model ----
(***************************************************************************)
(* Credential lifecycle of the Google Workspace MCP HTTP servers.          *)
(*                                                                         *)
(* Three request handlers are modelled, each with its own store:           *)
(*   server = "railway" : railway_server.py, tokens in a Supabase table    *)
(*                        (TokenManager.save_token/get_token/delete_token),*)
(*   server = "old"     : railway_server_old.py, tokens in the process     *)
(*                        global dict coach_tokens,                        *)
(*   server = "fastapi" : http_server.py, credentials in the credential    *)
(*                        store of auth.credential_store.                  *)
(* A behaviour is one deployment: Init fixes the server, every later step  *)
(* is one complete HTTP request (or the passing of time).  The response of *)
(* the last request is kept in resp together with the inputs the request   *)
(* received and the calls it made to the provider, the downstream API and  *)
(* the store.                                                              *)
(*                                                                         *)
(* The Supabase table google_oauth_tokens is keyed by coach_id: inserts    *)
(* are sent with "Prefer: resolution=merge-duplicates", which makes the    *)
(* REST layer resolve a key conflict by updating the row, so the table     *)
(* holds zero or one row per coach and a filtered read returns a list of   *)
(* length 0 or 1.                                                          *)
(***************************************************************************)
EXTENDS Integers, Sequences, FiniteSets, TLC

VARIABLES server, store, coach_tokens, credential_store, now, resp, tm, pc,
          connections, processed

vars == <<server, store, coach_tokens, credential_store, now, resp, tm, pc,
          connections, processed>>

(***************************************************************************)
(* Bounds                                                                  *)
(***************************************************************************)
\* a People API answer lists at most MaxEntries persons, and each of a
\* person's multi-valued fields holds at most MaxValues elements
MaxEntries == 2
MaxValues == 2

\* the clock runs over 0..MaxTime
MaxTime == 1

(***************************************************************************)
(* Values                                                                  *)
(***************************************************************************)
Servers == {"railway", "old", "fastapi"}

\* coach ids that appear in request paths and bodies
Coaches == {"c1", "c2"}

\* JSON null / Python None, for string-valued fields
None == "null"

\* email the exchange handler treats specially
DevEmail == "bralinprime28@gmail.com"

Emails == {"coach@x.org", DevEmail}

\* default of save_token's expires_in and of token_response.get('expires_in', 3600)
DefaultExpiresIn == 3600

\* a row whose expires_at column is NULL
NoExpiry == -1

\* opaque markers and literals of the handlers
StoredMarker == "stored_securely"
MockAccess == "development_mock_token"
MockRefresh == "development_mock_refresh"
MockScope == "calendar contacts.readonly"
SimAccess == "simulated_access_token"
SimRefresh == "simulated_refresh_token"

\* token values the provider can issue
AccessTokens == {"AT1", "AT2"}
RefreshTokens == {"RT1"}
ProviderTokens == AccessTokens \cup RefreshTokens

(***************************************************************************)
(* TokenManager: the Supabase table google_oauth_tokens                    *)
(***************************************************************************)
\* store[c] is the list of rows the REST filter coach_id=eq.c returns
NoRows == <<>>

EmptyStore == [c \in Coaches |-> NoRows]

\* outcomes of the REST calls save_token makes (the existence check, the
\* PATCH or POST that follows it, the POST of the except branch), and the
\* value the table gives the expires_at column of a newly inserted row:
\* the column is not part of the payload, so it is the column default,
\* NULL or the time of the insert.  One pattern per path through
\* save_token: all calls succeed; the write fails and the fallback insert
\* succeeds; the check fails and so does the fallback insert.
SaveIO(t) ==
    [check : {TRUE}, write : {TRUE}, fallback : {TRUE}, db_expires_at : {NoExpiry, t}]
    \cup
    [check : {TRUE}, write : {FALSE}, fallback : {TRUE}, db_expires_at : {NoExpiry, t}]
    \cup
    [check : {FALSE}, write : {TRUE}, fallback : {FALSE}, db_expires_at : {NoExpiry}]

\* the payload token_data of save_token (updated_at, which is written but
\* never read back by a decision of the handlers, is not tracked)
token_data(coach_email, access_token, refresh_token, expires_in, scope) ==
    [coach_email |-> coach_email,
     access_token |-> access_token,
     refresh_token |-> refresh_token,
     expires_in |-> expires_in,
     scope |-> scope]

\* a PATCH whose payload lacks coach_email: the column keeps its old value
patch_row_keeps_email(row, data) ==
    [coach_email |-> row.coach_email,
     access_token |-> data.access_token,
     refresh_token |-> data.refresh_token,
     expires_in |-> data.expires_in,
     scope |-> data.scope,
     expires_at |-> row.expires_at]

\* PATCH ...?coach_id=eq.c : the payload columns of the matching row are
\* overwritten, expires_at is left as it is
patch_row(row, data) ==
    [coach_email |-> data.coach_email,
     access_token |-> data.access_token,
     refresh_token |-> data.refresh_token,
     expires_in |-> data.expires_in,
     scope |-> data.scope,
     expires_at |-> row.expires_at]

\* a POST without the Prefer header: a plain insert that adds a row whether
\* or not the key is present
insert_row_plain(rows, data, db_expires_at) ==
    Append(rows, [coach_email |-> data.coach_email,
                  access_token |-> data.access_token,
                  refresh_token |-> data.refresh_token,
                  expires_in |-> data.expires_in,
                  scope |-> data.scope,
                  expires_at |-> db_expires_at])

\* POST with Prefer: resolution=merge-duplicates : a new row, or the
\* payload columns merged into the row that already has the key
insert_row(rows, data, db_expires_at) ==
    IF rows = NoRows
    THEN <<[coach_email |-> data.coach_email,
            access_token |-> data.access_token,
            refresh_token |-> data.refresh_token,
            expires_in |-> data.expires_in,
            scope |-> data.scope,
            expires_at |-> db_expires_at]>>
    ELSE <<patch_row(rows[1], data)>>

\* TokenManager.save_token: the new table and the value returned
save_token(st, coach_id, coach_email, access_token, refresh_token, expires_in, scope, io) ==
    LET data == token_data(coach_email, access_token, refresh_token, expires_in, scope)
        rows == st[coach_id]
        fallback ==
            IF io.fallback
            THEN [store |-> [st EXCEPT ![coach_id] = insert_row(rows, data, io.db_expires_at)],
                  saved |-> TRUE]
            ELSE [store |-> st, saved |-> FALSE]
    IN  IF ~io.check
        THEN fallback
        ELSE IF ~io.write
             THEN fallback
             ELSE IF rows # NoRows
                  THEN [store |-> [st EXCEPT ![coach_id] = <<patch_row(rows[1], data)>>],
                        saved |-> TRUE]
                  ELSE [store |-> [st EXCEPT ![coach_id] = insert_row(rows, data, io.db_expires_at)],
                        saved |-> TRUE]

\* lines 113-116 of get_token: a row without expires_at never expires, and
\* the comparison with utcnow() is strict
is_expired(row, t) ==
    row.expires_at # NoExpiry /\ row.expires_at < t

\* TokenManager.get_token: the list holding the usable row, or the empty
\* list for None.  read_ok = FALSE is any exception inside the try block
\* (store unreachable, undecodable answer, or the comparison of a
\* timezone-aware expires_at with the naive utcnow()).
get_token(st, coach_id, t, read_ok) ==
    IF ~read_ok
    THEN NoRows
    ELSE IF st[coach_id] # NoRows
         THEN IF is_expired(st[coach_id][1], t)
              THEN NoRows
              ELSE st[coach_id]
         ELSE NoRows

\* delete_token with a filter that matches no row: the request succeeds
\* and nothing is removed
delete_token_nomatch(st, coach_id, delete_ok) ==
    [store |-> st, deleted |-> delete_ok]

\* delete_token without the coach_id filter: every coach's rows are removed
delete_token_unfiltered(st, coach_id, delete_ok) ==
    IF delete_ok
    THEN [store |-> [c \in DOMAIN st |-> NoRows], deleted |-> TRUE]
    ELSE [store |-> st, deleted |-> FALSE]

\* TokenManager.delete_token: the new table and the value returned
delete_token(st, coach_id, delete_ok) ==
    IF delete_ok
    THEN [store |-> [st EXCEPT ![coach_id] = NoRows], deleted |-> TRUE]
    ELSE [store |-> st, deleted |-> FALSE]

(***************************************************************************)
(* Requests, provider answers and responses                                *)
(***************************************************************************)
\* what urlopen on the provider's token endpoint yields: an exception
\* (HTTP error status or transport failure) or a decoded JSON object
ProviderError ==
    [kind |-> "error", has_access |-> FALSE, access_token |-> None,
     refresh_token |-> None, has_expires_in |-> FALSE, expires_in |-> 0, scope |-> ""]

TokenResponses ==
    { [kind |-> "json", has_access |-> TRUE, access_token |-> "AT1",
       refresh_token |-> "RT1", has_expires_in |-> TRUE, expires_in |-> 1, scope |-> "contacts"],
      [kind |-> "json", has_access |-> TRUE, access_token |-> "AT2",
       refresh_token |-> None, has_expires_in |-> FALSE, expires_in |-> 0, scope |-> ""],
      [kind |-> "json", has_access |-> TRUE, access_token |-> "",
       refresh_token |-> None, has_expires_in |-> FALSE, expires_in |-> 0, scope |-> ""],
      [kind |-> "json", has_access |-> FALSE, access_token |-> None,
       refresh_token |-> "RT1", has_expires_in |-> FALSE, expires_in |-> 0, scope |-> ""] }

ProviderOutcomes == {ProviderError} \cup TokenResponses

\* token_response.get('expires_in', 3600)
expires_in_of(tr) == IF tr.has_expires_in THEN tr.expires_in ELSE DefaultExpiresIn

\* the token values that str(token_error) carries: the text of the raised
\* "Token exchange failed: {token_response}" prints every field of the
\* provider's answer, the text of a urlopen failure prints none
error_text_tokens(tr) ==
    IF tr.kind = "json" /\ ~tr.has_access
    THEN {tr.refresh_token} \cap ProviderTokens
    ELSE {}

\* body of a POST /oauth/exchange request
Codes == {None, "", "code1"}

\* what urlopen on the People API yields
DownstreamOutcomes == {"200", "401", "403", "429", "500", "neterr"}

\* the response of the last request, with the inputs it was given and the
\* calls made while it was handled
BaseResp ==
    [endpoint |-> "none",
     coach_id |-> None,
     code |-> 0,
     responses |-> 0,
     success |-> "none",
     connected |-> "none",
     access_token |-> None,
     refresh_token |-> None,
     echo |-> {},
     state |-> None,
     body |-> "none",
     req_code |-> None,
     req_coach |-> None,
     provider |-> "none",
     provider_access |-> None,
     downstream |-> "none",
     bearer |-> None,
     provider_calls |-> 0,
     downstream_calls |-> 0,
     delete_calls |-> 0,
     deleted |-> "none",
     expired |-> "none",
     save_calls |-> 0,
     saved |-> "none",
     had_record |-> FALSE,
     read_ok |-> "none"]

\* label of a provider answer
provider_label(tr) ==
    IF tr.kind = "error" THEN "error"
    ELSE IF ~tr.has_access THEN "no_access_token"
    ELSE "token"

bool_str(b) == IF b THEN "true" ELSE "false"

(***************************************************************************)
(* railway_server.py: Handler.do_GET                                       *)
(***************************************************************************)
\* GET /health
Health ==
    /\ resp' = [BaseResp EXCEPT !.endpoint = "health", !.responses = 1, !.code = 200]
    /\ UNCHANGED <<connections, processed, credential_store, tm, pc, server, store, coach_tokens, now>>

\* what get_token found about the expiry of the coach's row, "none" when it
\* found no row to look at
found_expired(st, coach_id, t, read_ok) ==
    IF read_ok /\ st[coach_id] # NoRows
    THEN bool_str(is_expired(st[coach_id][1], t))
    ELSE "none"

\* the status route over a get_token without its try block: a failed read
\* propagates and the request fails
do_GET_status_unguarded(st, t, coach_id, read_ok) ==
    LET token_info == get_token(st, coach_id, t, TRUE)
    IN  [BaseResp EXCEPT !.endpoint = "status",
                         !.coach_id = coach_id,
                         !.responses = 1, !.code = IF read_ok THEN 200 ELSE 500,
                         !.connected = IF read_ok THEN bool_str(token_info # NoRows) ELSE "none",
                         !.had_record = (st[coach_id] # NoRows),
                         !.expired = found_expired(st, coach_id, t, read_ok),
                         !.read_ok = bool_str(read_ok)]

\* the status route refreshing an expired token at the provider's token
\* endpoint before it answers
do_GET_status_refreshes(st, t, coach_id, read_ok) ==
    LET token_info == get_token(st, coach_id, t, read_ok)
        expired == found_expired(st, coach_id, t, read_ok)
    IN  [BaseResp EXCEPT !.endpoint = "status",
                         !.coach_id = coach_id,
                         !.responses = 1, !.code = 200,
                         !.connected = bool_str(token_info # NoRows \/ expired = "true"),
                         !.provider_calls = IF expired = "true" THEN 1 ELSE 0,
                         !.had_record = (st[coach_id] # NoRows),
                         !.expired = expired,
                         !.read_ok = bool_str(read_ok)]

\* GET /coach/<coach_id>/google-oauth-status
do_GET_status(st, t, coach_id, read_ok) ==
    LET token_info == get_token(st, coach_id, t, read_ok)
    IN  [BaseResp EXCEPT !.endpoint = "status",
                         !.coach_id = coach_id,
                         !.responses = 1, !.code = 200,
                         !.connected = bool_str(token_info # NoRows),
                         !.had_record = (st[coach_id] # NoRows),
                         !.expired = found_expired(st, coach_id, t, read_ok),
                         !.read_ok = bool_str(read_ok)]

OAuthStatus ==
    /\ server = "railway"
    /\ \E coach_id \in Coaches, read_ok \in BOOLEAN :
          resp' = do_GET_status(store, now, coach_id, read_ok)
    /\ UNCHANGED <<connections, processed, credential_store, tm, pc, server, store, coach_tokens, now>>

\* the 401 answers of the contacts route
contacts_401(coach_id, had) ==
    [BaseResp EXCEPT !.endpoint = "contacts",
                     !.coach_id = coach_id,
                     !.responses = 1, !.code = 401,
                     !.success = "false",
                     !.had_record = had]

\* the contacts route without its `if not access_token` check
do_GET_contacts_any_token(st, t, coach_id, read_ok, downstream, delete_ok) ==
    LET token_info == get_token(st, coach_id, t, read_ok)
        had == st[coach_id] # NoRows
        access_token == token_info[1].access_token
        rejected == [contacts_401(coach_id, had) EXCEPT
                        !.expired = found_expired(st, coach_id, t, read_ok)]
        called == [rejected EXCEPT !.downstream = downstream,
                                   !.downstream_calls = 1,
                                   !.bearer = access_token]
    IN  IF token_info = NoRows
        THEN [store |-> st, resp |-> rejected]
        ELSE IF downstream = "200"
        THEN [store |-> st,
              resp |-> [called EXCEPT !.responses = 1, !.code = 200, !.success = "true"]]
        ELSE IF downstream = "401"
        THEN [store |-> delete_token(st, coach_id, delete_ok).store,
              resp |-> [called EXCEPT !.responses = 1, !.code = 401,
                                      !.delete_calls = 1,
                                      !.deleted = bool_str(delete_token(st, coach_id, delete_ok).deleted)]]
        ELSE [store |-> st, resp |-> [called EXCEPT !.responses = 1, !.code = 500]]

\* GET /coach/<coach_id>/google-contacts: the new table and the response
do_GET_contacts(st, t, coach_id, read_ok, downstream, delete_ok) ==
    LET token_info == get_token(st, coach_id, t, read_ok)
        had == st[coach_id] # NoRows
        access_token == token_info[1].access_token
        rejected == [contacts_401(coach_id, had) EXCEPT
                        !.expired = found_expired(st, coach_id, t, read_ok)]
        called == [rejected EXCEPT !.downstream = downstream,
                                   !.downstream_calls = 1,
                                   !.bearer = access_token]
    IN  IF token_info = NoRows
        THEN [store |-> st, resp |-> rejected]
        ELSE IF access_token = None \/ access_token = ""
        THEN [store |-> st, resp |-> rejected]
        ELSE IF downstream = "200"
        THEN [store |-> st,
              resp |-> [called EXCEPT !.responses = 1, !.code = 200, !.success = "true"]]
        ELSE IF downstream = "401"
        THEN [store |-> delete_token(st, coach_id, delete_ok).store,
              resp |-> [called EXCEPT !.responses = 1, !.code = 401,
                                      !.delete_calls = 1,
                                      !.deleted = bool_str(delete_token(st, coach_id, delete_ok).deleted)]]
        ELSE [store |-> st, resp |-> [called EXCEPT !.responses = 1, !.code = 500]]

\* the answers of the table and of the People API to a contacts request:
\* the lookup fails, or it succeeds and the People API answers, and after
\* a 401 the delete succeeds or fails
ContactsInputs ==
    [read_ok : {FALSE}, downstream : {"neterr"}, delete_ok : {FALSE}]
    \cup
    [read_ok : {TRUE}, downstream : DownstreamOutcomes, delete_ok : {TRUE}]
    \cup
    [read_ok : {TRUE}, downstream : {"401"}, delete_ok : {FALSE}]

Contacts ==
    /\ server = "railway"
    /\ \E coach_id \in Coaches, in \in ContactsInputs :
          LET r == do_GET_contacts(store, now, coach_id, in.read_ok, in.downstream, in.delete_ok)
          IN  /\ store' = r.store
              /\ resp' = r.resp
    /\ UNCHANGED <<connections, processed, credential_store, tm, pc, server, coach_tokens, now>>

\* the value of the coach_id query parameter of a /google/oauth-url request
QueryCoachIds == {None, "default"} \cup Coaches

\* GET /google/oauth-url...: the query string is not read
do_GET_oauth_url(query_coach_id) ==
    LET coach_id == "default"
    IN  [BaseResp EXCEPT !.endpoint = "oauth_url",
                         !.req_coach = query_coach_id,
                         !.coach_id = coach_id,
                         !.state = coach_id,
                         !.responses = 1, !.code = 200,
                         !.success = "true"]

OAuthUrl ==
    /\ server \in {"railway", "old"}
    /\ \E query_coach_id \in QueryCoachIds :
          resp' = do_GET_oauth_url(query_coach_id)
    /\ UNCHANGED <<connections, processed, credential_store, tm, pc, server, store, coach_tokens, now>>

\* the callback route without its `if not code` check
do_GET_callback_unchecked(code) ==
    [BaseResp EXCEPT !.endpoint = "callback", !.req_code = code, !.responses = 1, !.code = 200,
                     !.success = "true"]

\* the callback route without the return after its 400: the handler goes on
\* to send the acknowledgement as well
do_GET_callback_no_return(code) ==
    IF code = None \/ code = ""
    THEN [BaseResp EXCEPT !.endpoint = "callback", !.req_code = code, !.responses = 2,
                          !.code = 200, !.success = "true"]
    ELSE [BaseResp EXCEPT !.endpoint = "callback", !.req_code = code, !.responses = 1,
                          !.code = 200, !.success = "true"]

\* GET /oauth2callback...
do_GET_callback(code) ==
    IF code = None \/ code = ""
    THEN [BaseResp EXCEPT !.endpoint = "callback", !.req_code = code, !.responses = 1, !.code = 400]
    ELSE [BaseResp EXCEPT !.endpoint = "callback", !.req_code = code, !.responses = 1, !.code = 200,
                          !.success = "true"]

Callback ==
    /\ \E code \in Codes : resp' = do_GET_callback(code)
    /\ UNCHANGED <<connections, processed, credential_store, tm, pc, server, store, coach_tokens, now>>

\* any other path, GET or POST
NotFound ==
    /\ resp' = [BaseResp EXCEPT !.endpoint = "notfound", !.responses = 1, !.code = 404]
    /\ UNCHANGED <<connections, processed, credential_store, tm, pc, server, store, coach_tokens, now>>

(***************************************************************************)
(* railway_server.py: Handler.do_POST                                      *)
(***************************************************************************)
\* POST /coach/<coach_id>/google-oauth-disconnect
do_POST_disconnect(st, coach_id, delete_ok) ==
    LET d == delete_token(st, coach_id, delete_ok)
    IN  [store |-> d.store,
         resp |-> [BaseResp EXCEPT !.endpoint = "disconnect",
                                   !.coach_id = coach_id,
                                   !.responses = 1, !.code = 200,
                                   !.success = bool_str(d.deleted),
                                   !.delete_calls = 1,
                                   !.deleted = bool_str(d.deleted),
                                   !.had_record = (st[coach_id] # NoRows)]]

Disconnect ==
    /\ server = "railway"
    /\ \E coach_id \in Coaches, delete_ok \in BOOLEAN :
          LET r == do_POST_disconnect(store, coach_id, delete_ok)
          IN  /\ store' = r.store
              /\ resp' = r.resp
    /\ UNCHANGED <<connections, processed, credential_store, tm, pc, server, coach_tokens, now>>

\* the check written as "is None": an empty string passes
missing_params_is_none(code, coach_id) ==
    code = None \/ coach_id = None

\* "if not code or not coach_id": None and the empty string are both falsy
missing_params(code, coach_id) ==
    code = None \/ code = "" \/ coach_id = None \/ coach_id = ""

\* the request as the exchange handler reads it
exchange_request(body, code, coach_id, coach_email) ==
    [BaseResp EXCEPT !.endpoint = "exchange",
                     !.body = body,
                     !.req_code = code,
                     !.req_coach = coach_id]

\* a body that does not decode, and one that decodes to something that has
\* no get(): the two outer except clauses
exchange_unreadable(body) ==
    [exchange_request(body, None, None, None) EXCEPT
        !.responses = 1, !.code = IF body = "badjson" THEN 400 ELSE 500,
        !.success = "false"]

\* POST /oauth/exchange with a body that decodes to an object (or no body):
\* the new table and the response
do_POST_exchange(st, body, code, coach_id, coach_email, tr, io) ==
    LET req == exchange_request(body, code, coach_id, coach_email)
        called == [req EXCEPT !.coach_id = coach_id,
                              !.provider = provider_label(tr),
                              !.provider_access = tr.access_token,
                              !.provider_calls = 1,
                              !.had_record = (st[coach_id] # NoRows)]
        s == save_token(st, coach_id, coach_email, tr.access_token, tr.refresh_token,
                        expires_in_of(tr), tr.scope, io)
        mock == save_token(st, coach_id, coach_email, MockAccess, MockRefresh,
                           DefaultExpiresIn, MockScope, io)
    IN  IF missing_params(code, coach_id)
        THEN [store |-> st, resp |-> [req EXCEPT !.responses = 1, !.code = 400, !.success = "false"]]
        ELSE IF tr.kind = "json" /\ tr.has_access
        THEN [store |-> s.store,
              resp |-> [called EXCEPT !.responses = 1, !.code = 200,
                                      !.success = "true",
                                      !.access_token = StoredMarker,
                                      !.save_calls = 1,
                                      !.saved = bool_str(s.saved)]]
        ELSE IF coach_email = DevEmail
        THEN [store |-> mock.store,
              resp |-> [called EXCEPT !.responses = 1, !.code = 500,
                                      !.success = "false",
                                      !.echo = error_text_tokens(tr),
                                      !.save_calls = 1,
                                      !.saved = bool_str(mock.saved)]]
        ELSE [store |-> st,
              resp |-> [called EXCEPT !.responses = 1, !.code = 500,
                                      !.success = "false",
                                      !.echo = error_text_tokens(tr)]]

\* the answers of the table that make a difference to a save for coach_id
SaveIOFor(st, coach_id, t) ==
    IF st[coach_id] = NoRows
    THEN SaveIO(t)
    ELSE {io \in SaveIO(t) : io.db_expires_at = NoExpiry}

\* the request bodies that decode to an object, as (code, coachId) pairs:
\* complete ones and ones that lack a field
CompleteBodies == {"code1"} \X Coaches
IncompleteBodies == ((Codes \X ({None} \cup Coaches)) \ CompleteBodies)

\* the inputs of a complete exchange request; the table is reached only
\* on the paths that call save_token
NoSaveIO == [check |-> FALSE, write |-> TRUE, fallback |-> FALSE, db_expires_at |-> NoExpiry]

ExchangeIOFor(st, coach_id, coach_email, tr, t) ==
    IF (tr.kind = "json" /\ tr.has_access) \/ coach_email = DevEmail
    THEN SaveIOFor(st, coach_id, t)
    ELSE {NoSaveIO}

Exchange ==
    /\ server = "railway"
    /\ \/ \E b \in CompleteBodies, coach_email \in Emails, tr \in ProviderOutcomes :
          \E io \in ExchangeIOFor(store, b[2], coach_email, tr, now) :
             LET r == do_POST_exchange(store, "object", b[1], b[2], coach_email, tr, io)
             IN  /\ store' = r.store
                 /\ resp' = r.resp
       \/ \E b \in IncompleteBodies, body \in {"object", "empty"} :
             /\ body = "empty" => (b[1] = None /\ b[2] = None)
             /\ LET r == do_POST_exchange(store, body, b[1], b[2], None, ProviderError, NoSaveIO)
                IN  /\ store' = r.store
                    /\ resp' = r.resp
       \/ \E body \in {"badjson", "nonobject"} :
             /\ store' = store
             /\ resp' = exchange_unreadable(body)
    /\ UNCHANGED <<connections, processed, credential_store, tm, pc, server, coach_tokens, now>>

(***************************************************************************)
(* railway_server_old.py: the same routes over the global coach_tokens     *)
(***************************************************************************)
\* GET /coach/<coach_id>/google-oauth-status: no lookup is made
old_do_GET_status(ct, coach_id) ==
    [BaseResp EXCEPT !.endpoint = "status",
                     !.coach_id = coach_id,
                     !.responses = 1, !.code = 200,
                     !.connected = "true",
                     !.had_record = (ct[coach_id] # NoRows)]

OldOAuthStatus ==
    /\ server = "old"
    /\ \E coach_id \in Coaches : resp' = old_do_GET_status(coach_tokens, coach_id)
    /\ UNCHANGED <<connections, processed, credential_store, tm, pc, server, store, coach_tokens, now>>

\* GET /coach/<coach_id>/google-contacts
old_do_GET_contacts(ct, coach_id, downstream) ==
    LET had == ct[coach_id] # NoRows
        access_token == ct[coach_id][1].access_token
        called == [contacts_401(coach_id, had) EXCEPT !.downstream = downstream,
                                                      !.downstream_calls = 1,
                                                      !.bearer = access_token]
    IN  IF ~had
        THEN contacts_401(coach_id, had)
        ELSE IF access_token = None \/ access_token = ""
        THEN contacts_401(coach_id, had)
        ELSE IF downstream = "200"
        THEN [called EXCEPT !.responses = 1, !.code = 200, !.success = "true"]
        ELSE IF downstream = "401"
        THEN [called EXCEPT !.responses = 1, !.code = 401]
        ELSE [called EXCEPT !.responses = 1, !.code = 500]

OldContacts ==
    /\ server = "old"
    /\ \E coach_id \in Coaches, downstream \in DownstreamOutcomes :
          resp' = old_do_GET_contacts(coach_tokens, coach_id, downstream)
    /\ UNCHANGED <<connections, processed, credential_store, tm, pc, server, store, coach_tokens, now>>

\* POST /coach/<coach_id>/google-oauth-disconnect: nothing is removed
old_do_POST_disconnect(ct, coach_id) ==
    [BaseResp EXCEPT !.endpoint = "disconnect",
                     !.coach_id = coach_id,
                     !.responses = 1, !.code = 200,
                     !.success = "true",
                     !.had_record = (ct[coach_id] # NoRows)]

OldDisconnect ==
    /\ server = "old"
    /\ \E coach_id \in Coaches : resp' = old_do_POST_disconnect(coach_tokens, coach_id)
    /\ UNCHANGED <<connections, processed, credential_store, tm, pc, server, store, coach_tokens, now>>

\* POST /oauth/exchange with a body that decodes to an object (or no body):
\* the new coach_tokens and the response
old_do_POST_exchange(ct, body, code, coach_id, coach_email, tr) ==
    LET req == exchange_request(body, code, coach_id, coach_email)
        called == [req EXCEPT !.coach_id = coach_id,
                              !.provider = provider_label(tr),
                              !.provider_access = tr.access_token,
                              !.provider_calls = 1,
                              !.had_record = (ct[coach_id] # NoRows)]
        entry == [access_token |-> tr.access_token,
                  refresh_token |-> tr.refresh_token,
                  expires_in |-> expires_in_of(tr),
                  token_type |-> "Bearer",
                  scope |-> tr.scope,
                  coach_email |-> coach_email]
    IN  IF missing_params(code, coach_id)
        THEN [coach_tokens |-> ct, resp |-> [req EXCEPT !.responses = 1, !.code = 400, !.success = "false"]]
        ELSE IF tr.kind = "json" /\ tr.has_access
        THEN [coach_tokens |-> [ct EXCEPT ![coach_id] = <<entry>>],
              resp |-> [called EXCEPT !.responses = 1, !.code = 200,
                                      !.success = "true",
                                      !.access_token = StoredMarker,
                                      !.saved = "true"]]
        ELSE [coach_tokens |-> ct,
              resp |-> [called EXCEPT !.responses = 1, !.code = 200,
                                      !.success = "true",
                                      !.access_token = SimAccess,
                                      !.refresh_token = SimRefresh,
                                      !.echo = error_text_tokens(tr)]]

OldExchange ==
    /\ server = "old"
    /\ \/ \E b \in CompleteBodies, coach_email \in Emails, tr \in ProviderOutcomes :
             LET r == old_do_POST_exchange(coach_tokens, "object", b[1], b[2], coach_email, tr)
             IN  /\ coach_tokens' = r.coach_tokens
                 /\ resp' = r.resp
       \/ \E b \in IncompleteBodies, body \in {"object", "empty"} :
             /\ body = "empty" => (b[1] = None /\ b[2] = None)
             /\ LET r == old_do_POST_exchange(coach_tokens, body, b[1], b[2], None, ProviderError)
                IN  /\ coach_tokens' = r.coach_tokens
                    /\ resp' = r.resp
       \/ \E body \in {"badjson", "nonobject"} :
             /\ coach_tokens' = coach_tokens
             /\ resp' = exchange_unreadable(body)
    /\ UNCHANGED <<connections, processed, credential_store, tm, pc, server, store, now>>

(***************************************************************************)
(* http_server.py: the FastAPI routes over auth.credential_store           *)
(***************************************************************************)
\* coach ids that appear in the paths of the FastAPI routes; the ones in
\* EmailShaped contain an "@"
FastCoachIds == {"c1", "c2", "c1@example.com"}
EmailShaped == {"c1@example.com"}

\* get_user_email_from_coach_id
get_user_email_from_coach_id(coach_id) ==
    IF coach_id \in EmailShaped
    THEN coach_id
    ELSE coach_id \o "@example.com"

\* the keys of the credential store
UserEmails == {get_user_email_from_coach_id(c) : c \in FastCoachIds}

EmptyCredentialStore == [e \in UserEmails |-> NoRows]

\* a stored credential: its token and the time it expires at
Credentials == [token : AccessTokens, expiry : {NoExpiry} \cup (0..MaxTime)]

\* credentials.valid: the credential has not expired at time t
valid(credentials, t) ==
    credentials.expiry = NoExpiry \/ t < credentials.expiry

\* credential_store.get_credential: the stored credential, absent when
\* there is none and when the backing store cannot be read
get_credential(cs, user_email, read_ok) ==
    IF read_ok THEN cs[user_email] ELSE NoRows

\* credential_store.delete_credential: whether a credential existed and was
\* removed; a backing store that cannot be written raises
delete_credential(cs, user_email, write_ok) ==
    IF ~write_ok
    THEN [store |-> cs, deleted |-> FALSE, raised |-> TRUE]
    ELSE [store |-> [cs EXCEPT ![user_email] = NoRows],
          deleted |-> cs[user_email] # NoRows,
          raised |-> FALSE]

\* the credential store is filled by the authorization flow of the MCP
\* server, outside the FastAPI routes
FastStoreCredential ==
    /\ server = "fastapi"
    /\ \E user_email \in UserEmails, credentials \in Credentials :
          /\ credentials.expiry = NoExpiry \/ credentials.expiry >= now
          /\ credential_store' = [credential_store EXCEPT ![user_email] = <<credentials>>]
    /\ UNCHANGED <<connections, processed, tm, pc, server, store, coach_tokens, now, resp>>

\* GET /coach/{coach_id}/google-oauth-status
get_oauth_status(cs, t, coach_id, read_ok) ==
    LET user_email == get_user_email_from_coach_id(coach_id)
        credentials == get_credential(cs, user_email, read_ok)
    IN  [BaseResp EXCEPT !.endpoint = "status",
                         !.coach_id = coach_id,
                         !.responses = 1, !.code = 200,
                         !.connected = bool_str(credentials # NoRows /\ valid(credentials[1], t)),
                         !.had_record = (cs[user_email] # NoRows),
                         !.read_ok = bool_str(read_ok)]

FastOAuthStatus ==
    /\ server = "fastapi"
    /\ \E coach_id \in FastCoachIds, read_ok \in BOOLEAN :
          resp' = get_oauth_status(credential_store, now, coach_id, read_ok)
    /\ UNCHANGED <<connections, processed, credential_store, tm, pc, server, store, coach_tokens, now>>

\* POST /coach/{coach_id}/google-oauth-disconnect
disconnect_oauth(cs, coach_id, write_ok) ==
    LET user_email == get_user_email_from_coach_id(coach_id)
        d == delete_credential(cs, user_email, write_ok)
        r == [BaseResp EXCEPT !.endpoint = "disconnect",
                              !.coach_id = coach_id,
                              !.delete_calls = 1,
                              !.had_record = (cs[user_email] # NoRows)]
    IN  [store |-> d.store,
         resp |-> IF d.raised
                  THEN [r EXCEPT !.responses = 1, !.code = 500, !.success = "false"]
                  ELSE IF d.deleted
                  THEN [r EXCEPT !.responses = 1, !.code = 200, !.success = "true", !.deleted = "true"]
                  ELSE [r EXCEPT !.responses = 1, !.code = 400, !.success = "false", !.deleted = "false"]]

FastDisconnect ==
    /\ server = "fastapi"
    /\ \E coach_id \in FastCoachIds, write_ok \in BOOLEAN :
          LET r == disconnect_oauth(credential_store, coach_id, write_ok)
          IN  /\ credential_store' = r.store
              /\ resp' = r.resp
    /\ UNCHANGED <<connections, processed, tm, pc, server, store, coach_tokens, now>>

\* GET /coach/{coach_id}/google-contacts: no downstream call is made
get_google_contacts(cs, t, coach_id, read_ok) ==
    LET user_email == get_user_email_from_coach_id(coach_id)
        credentials == get_credential(cs, user_email, read_ok)
        r == [BaseResp EXCEPT !.endpoint = "contacts",
                              !.coach_id = coach_id,
                              !.had_record = (cs[user_email] # NoRows)]
    IN  IF credentials = NoRows \/ ~valid(credentials[1], t)
        THEN [r EXCEPT !.responses = 1, !.code = 401, !.success = "false"]
        ELSE [r EXCEPT !.responses = 1, !.code = 200, !.success = "true"]

FastContacts ==
    /\ server = "fastapi"
    /\ \E coach_id \in FastCoachIds, read_ok \in BOOLEAN :
          resp' = get_google_contacts(credential_store, now, coach_id, read_ok)
    /\ UNCHANGED <<connections, processed, credential_store, tm, pc, server, store, coach_tokens, now>>

(***************************************************************************)
(* TokenManager operations issued directly                                 *)
(***************************************************************************)
\* the processes that share the Supabase table
Workers == {"w1", "w2"}

NoData == token_data(None, None, None, 0, "")

\* the last TokenManager operation that completed: its arguments, the time
\* it ran at, the rows the coach had before it, what it returned (ok: the
\* value returned by save_token and delete_token, for get_token whether the
\* read succeeded; result: the rows get_token returned, for save_token the
\* rows the coach has afterwards), and the operation that completed before it
NoOp ==
    [op |-> "none", coach_id |-> None, data |-> NoData, ok |-> FALSE,
     result |-> NoRows, at |-> 0, prior |-> NoRows,
     prev_op |-> "none", prev_coach |-> None, prev_ok |-> FALSE]

\* a process that is not inside save_token
Idle ==
    [stage |-> "idle", coach_id |-> None, data |-> NoData, existing |-> FALSE,
     path |-> "none", merged |-> FALSE, saved |-> FALSE]

(***************************************************************************)
(* Time and the specification                                              *)
(***************************************************************************)
\* the contact list of a contacts answer, before the loop of lines 247-289
\* has run
NotProcessed == [done |-> FALSE, contacts |-> <<>>, total |-> 0]

\* the wall clock read by datetime.utcnow()
Tick ==
    /\ now < MaxTime
    /\ now' = now + 1
    /\ UNCHANGED <<connections, processed, credential_store, tm, pc, server, store, coach_tokens, resp>>

Init ==
    /\ server \in Servers
    /\ store = EmptyStore
    /\ coach_tokens = EmptyStore
    /\ credential_store = EmptyCredentialStore
    /\ now = 0
    /\ resp = BaseResp
    /\ tm = NoOp
    /\ pc = [w \in Workers |-> Idle]
    /\ connections = <<>>
    /\ processed = NotProcessed

Next ==
    \/ Health
    \/ OAuthStatus
    \/ Contacts
    \/ OAuthUrl
    \/ Callback
    \/ NotFound
    \/ Disconnect
    \/ Exchange
    \/ OldOAuthStatus
    \/ OldContacts
    \/ OldDisconnect
    \/ OldExchange
    \/ FastStoreCredential
    \/ FastOAuthStatus
    \/ FastDisconnect
    \/ FastContacts
    \/ Tick

Spec == Init /\ [][Next]_vars

TypeOK ==
    /\ server \in Servers
    /\ now \in 0..MaxTime
    /\ \A c \in Coaches : Len(store[c]) <= 1 /\ Len(coach_tokens[c]) <= 1

(***************************************************************************)
(* Properties                                                              *)
(***************************************************************************)
\* the credential record the running server holds for a coach
Record(c) ==
    IF server = "railway" THEN store[c]
    ELSE IF server = "old" THEN coach_tokens[c]
    ELSE credential_store[get_user_email_from_coach_id(c)]

IsContacts == resp.endpoint = "contacts"
IsExchange == resp.endpoint = "exchange"
IsOAuthUrl == resp.endpoint = "oauth_url"

\* C1: when the contacts call of a coach that has a record receives 401
\* from the downstream API, the call is answered 401 and the coach's record
\* is gone from the store.
C1_Downstream401DeletesRecord ==
    (IsContacts /\ resp.downstream = "401" /\ resp.had_record)
        => (resp.code = 401 /\ Record(resp.coach_id) = NoRows)

\* C2: after a contacts request of the Supabase-backed server has been
\* answered 401, the store holds no record for that coach.
C2_NoRecordAfter401 ==
    (server = "railway" /\ IsContacts /\ resp.code = 401)
        => store[resp.coach_id] = NoRows

ExchangeFailed(r) == r.endpoint = "exchange" /\ r.provider \in {"error", "no_access_token"}

\* C4: an exchange request whose call to the provider's token endpoint
\* fails, or is answered without an access token, leaves the Supabase table
\* exactly as it was.
C4_FailedExchangeLeavesStore ==
    [][(server = "railway" /\ ExchangeFailed(resp')) => store' = store]_vars

\* C5: an exchange whose call to the provider's token endpoint fails, or is
\* answered without an access token, is answered with a non-success
\* response, never with success.
C5_FailedExchangeIsError ==
    ExchangeFailed(resp) => (resp.success = "false" /\ resp.code >= 400)

\* C6: whenever the exchange endpoint reports success, the provider's token
\* endpoint was called exactly once and the store holds a record for the
\* coach whose access token is the one the provider returned.
C6_SuccessMeansStored ==
    (IsExchange /\ resp.success = "true")
        => /\ resp.provider_calls = 1
           /\ Record(resp.coach_id) # NoRows
           /\ Record(resp.coach_id)[1].access_token = resp.provider_access

\* the last request was an exchange whose body decoded and lacks the code
\* or the coach id
ExchangeMissing(r) ==
    /\ r.endpoint = "exchange"
    /\ r.body \in {"object", "empty"}
    /\ (r.req_code \in {None, ""} \/ r.req_coach = None)

\* C7: an exchange request that lacks the authorization code or the coach
\* id is answered 400, makes no call to the provider's token endpoint and
\* leaves both servers' stores unchanged.
C7_MissingParamsRejected ==
    [][ExchangeMissing(resp')
          => /\ resp'.code = 400
             /\ resp'.provider_calls = 0
             /\ resp'.save_calls = 0
             /\ store' = store
             /\ coach_tokens' = coach_tokens]_vars

\* an exchange without a code was answered 400 while the server holds a
\* record that the request could have touched
C7_Witness ==
    /\ IsExchange
    /\ resp.req_code \in {None, ""}
    /\ resp.req_coach \in Coaches
    /\ resp.code = 400
    /\ resp.provider_calls = 0
    /\ Record(resp.req_coach) # NoRows

\* C8: /google/oauth-url answers a request without a coach_id, or with
\* coach_id "default", with a 4xx error and never with a consent URL whose
\* state is "default".
C8_PlaceholderRejected ==
    (IsOAuthUrl /\ resp.req_coach \in {None, "default"})
        => (resp.code >= 400 /\ resp.code < 500 /\ resp.state # "default")

\* C9: /google/oauth-url answers a request with coach_id c, c neither
\* empty nor "default", with success, coach_id = c and state = c in the
\* consent URL.
C9_StateIsCoachId ==
    (IsOAuthUrl /\ resp.req_coach \in Coaches)
        => (resp.code = 200 /\ resp.coach_id = resp.req_coach /\ resp.state = resp.req_coach)

\* C10: no success response carries a token value issued by the provider,
\* in a payload field or in its message text.
C10_NoTokenInSuccess ==
    (resp.code = 200 \/ resp.success = "true")
        => /\ resp.access_token \notin ProviderTokens
           /\ resp.refresh_token \notin ProviderTokens
           /\ resp.echo \cap ProviderTokens = {}

\* C11: no error response carries a token value issued by the provider, in
\* a payload field or in its error text.
C11_NoTokenInError ==
    (server = "railway" /\ resp.code >= 400)
        => /\ resp.access_token \notin ProviderTokens
           /\ resp.refresh_token \notin ProviderTokens
           /\ resp.echo \cap ProviderTokens = {}

\* C15: no stored credential record has a missing or empty access token.
C15_StoredAccessTokenPresent ==
    \A c \in Coaches :
        store[c] # NoRows => store[c][1].access_token \notin {None, ""}

\* C17: a delete reports true exactly when a record for the coach existed
\* and was removed; a delete for a coach without a record reports false and
\* changes nothing.
C17_DeleteReportsRemoval ==
    (server = "railway" /\ resp.delete_calls = 1)
        => (resp.deleted = "true" <=> (resp.had_record /\ store[resp.coach_id] = NoRows))

IsStatus == resp.endpoint = "status"

\* C16: a lookup for a coach without a record, and a lookup that cannot
\* read the backing store, yield absent: the status route (Supabase-backed
\* and FastAPI) then answers 200 "not connected" instead of failing.
C16_GetDegradesToAbsent ==
    (server \in {"railway", "fastapi"} /\ IsStatus)
        => /\ resp.code = 200
           /\ (~resp.had_record \/ resp.read_ok = "false") => resp.connected = "false"

\* the status of a coach that has a record was asked while the store could
\* not be read, and the answer was 200 "not connected"
C16_Witness ==
    /\ server = "railway"
    /\ IsStatus
    /\ resp.had_record
    /\ resp.read_ok = "false"
    /\ resp.code = 200
    /\ resp.connected = "false"

(***************************************************************************)
(* TokenManager on its own: save_token, get_token and delete_token called  *)
(* one after the other on the Supabase table                               *)
(***************************************************************************)
\* the records handed to save_token
SaveData ==
    { token_data("coach@x.org", "AT1", "RT1", 1, "contacts"),
      token_data(DevEmail, "AT2", None, DefaultExpiresIn, "") }

\* the operation that completed, on top of the one before it
completed(op, coach_id, data, ok, result, t, prior) ==
    [op |-> op, coach_id |-> coach_id, data |-> data, ok |-> ok,
     result |-> result, at |-> t, prior |-> prior,
     prev_op |-> tm.op, prev_coach |-> tm.coach_id, prev_ok |-> tm.ok]

TMSave ==
    /\ \E coach_id \in Coaches, data \in SaveData :
       \E io \in SaveIOFor(store, coach_id, now) :
          LET r == save_token(store, coach_id, data.coach_email, data.access_token,
                              data.refresh_token, data.expires_in, data.scope, io)
          IN  /\ store' = r.store
              /\ tm' = completed("save", coach_id, data, r.saved, r.store[coach_id],
                                 now, store[coach_id])
    /\ UNCHANGED <<connections, processed, credential_store, pc, server, coach_tokens, now, resp>>

TMGet ==
    /\ \E coach_id \in Coaches, read_ok \in BOOLEAN :
          tm' = completed("get", coach_id, NoData, read_ok,
                          get_token(store, coach_id, now, read_ok), now, store[coach_id])
    /\ UNCHANGED <<connections, processed, credential_store, pc, server, store, coach_tokens, now, resp>>

TMDelete ==
    /\ \E coach_id \in Coaches, delete_ok \in BOOLEAN :
          LET d == delete_token(store, coach_id, delete_ok)
          IN  /\ store' = d.store
              /\ tm' = completed("delete", coach_id, NoData, d.deleted, d.store[coach_id],
                                 now, store[coach_id])
    /\ UNCHANGED <<connections, processed, credential_store, pc, server, coach_tokens, now, resp>>

TMInit ==
    /\ server = "railway"
    /\ store = EmptyStore
    /\ coach_tokens = EmptyStore
    /\ credential_store = EmptyCredentialStore
    /\ now = 0
    /\ resp = BaseResp
    /\ tm = NoOp
    /\ pc = [w \in Workers |-> Idle]
    /\ connections = <<>>
    /\ processed = NotProcessed

TMNext ==
    \/ TMSave
    \/ TMGet
    \/ TMDelete
    \/ Tick

TMSpec == TMInit /\ [][TMNext]_vars

\* the payload columns of a row are those of data
HasPayload(row, data) ==
    /\ row.coach_email = data.coach_email
    /\ row.access_token = data.access_token
    /\ row.refresh_token = data.refresh_token
    /\ row.scope = data.scope
    /\ row.expires_in = data.expires_in

\* C13: after every save that succeeded, the stored expires_at is the time
\* of that write plus the expires_in of the record written.
C13_ExpiresAtRecomputed ==
    (tm.op = "save" /\ tm.ok)
        => /\ tm.result # NoRows
           /\ tm.result[1].expires_at = tm.at + tm.data.expires_in

\* the stored row of coach_id has not expired at time t
Unexpired(st, coach_id, t) ==
    /\ st[coach_id] # NoRows
    /\ \/ st[coach_id][1].expires_at = NoExpiry
       \/ st[coach_id][1].expires_at >= t

C18_DeleteThenGet ==
    [][(/\ tm.op = "delete" /\ tm.ok
        /\ tm'.op = "get" /\ tm'.coach_id = tm.coach_id)
           => tm'.result = NoRows]_vars

C18_Witness ==
    /\ tm.op = "get" /\ tm.ok
    /\ tm.prev_op = "delete" /\ tm.prev_ok /\ tm.prev_coach = tm.coach_id
    /\ tm.result = NoRows
    /\ \E c \in Coaches : c # tm.coach_id /\ store[c] # NoRows

C20_SaveReplacesOrFails ==
    tm.op = "save"
        => IF tm.ok
           THEN /\ Len(tm.result) = 1
                /\ HasPayload(tm.result[1], tm.data)
                /\ tm.result[1].expires_at = tm.at + tm.data.expires_in
           ELSE tm.result = tm.prior

(***************************************************************************)
(* TokenManager under concurrent requests: save_token is a check request   *)
(* followed by a write request (and a fallback insert when either throws), *)
(* and another request's calls can reach the table between them.           *)
(* get_token and delete_token are one request each.                        *)
(***************************************************************************)
\* lines 50-57: the check request, answered or failing
CSaveCheck(w) ==
    /\ pc[w].stage = "idle"
    /\ \E coach_id \in Coaches, data \in SaveData, check_ok \in BOOLEAN :
          pc' = [pc EXCEPT ![w] =
                    [Idle EXCEPT !.stage = IF check_ok THEN "checked" ELSE "fallback",
                                 !.coach_id = coach_id,
                                 !.data = data,
                                 !.existing = check_ok /\ store[coach_id] # NoRows]]
    /\ UNCHANGED <<connections, processed, credential_store, tm, server, store, coach_tokens, now, resp>>

\* PATCH ...?coach_id=eq.c on the table as it is now: every row of the coach
\* takes the payload, none when there is no row
patch_rows(rows, data) ==
    [i \in DOMAIN rows |-> patch_row(rows[i], data)]

\* lines 59-77: PATCH when the check saw a row, POST otherwise
CSaveWrite(w) ==
    /\ pc[w].stage = "checked"
    /\ LET c == pc[w].coach_id
           rows == store[c]
       IN  \E write_ok \in BOOLEAN, db_expires_at \in {NoExpiry, now} :
              IF write_ok
              THEN /\ store' = [store EXCEPT ![c] =
                                  IF pc[w].existing
                                  THEN patch_rows(rows, pc[w].data)
                                  ELSE insert_row(rows, pc[w].data, db_expires_at)]
                   /\ pc' = [pc EXCEPT ![w].stage = "done",
                                       ![w].path = IF pc[w].existing THEN "patch" ELSE "insert",
                                       ![w].merged = ~pc[w].existing /\ rows # NoRows,
                                       ![w].saved = TRUE]
              ELSE /\ store' = store
                   /\ db_expires_at = NoExpiry
                   /\ pc' = [pc EXCEPT ![w].stage = "fallback"]
    /\ UNCHANGED <<connections, processed, credential_store, tm, server, coach_tokens, now, resp>>

\* lines 79-87: the fallback insert; its exception is caught at line 91
CSaveFallback(w) ==
    /\ pc[w].stage = "fallback"
    /\ LET c == pc[w].coach_id
           rows == store[c]
       IN  \E fallback_ok \in BOOLEAN, db_expires_at \in {NoExpiry, now} :
              IF fallback_ok
              THEN /\ store' = [store EXCEPT ![c] = insert_row(rows, pc[w].data, db_expires_at)]
                   /\ pc' = [pc EXCEPT ![w].stage = "done",
                                       ![w].path = "fallback",
                                       ![w].merged = rows # NoRows,
                                       ![w].saved = TRUE]
              ELSE /\ store' = store
                   /\ db_expires_at = NoExpiry
                   /\ pc' = [pc EXCEPT ![w].stage = "done",
                                       ![w].path = "fallback",
                                       ![w].saved = FALSE]
    /\ UNCHANGED <<connections, processed, credential_store, tm, server, coach_tokens, now, resp>>

\* lines 89-93: save_token returns
CSaveReturn(w) ==
    /\ pc[w].stage = "done"
    /\ pc' = [pc EXCEPT ![w] = Idle]
    /\ UNCHANGED <<connections, processed, credential_store, tm, server, store, coach_tokens, now, resp>>

CGet(w) ==
    /\ pc[w].stage = "idle"
    /\ \E coach_id \in Coaches, read_ok \in BOOLEAN :
          tm' = [NoOp EXCEPT !.op = "get", !.coach_id = coach_id, !.ok = read_ok,
                             !.result = get_token(store, coach_id, now, read_ok)]
    /\ UNCHANGED <<connections, processed, credential_store, pc, server, store, coach_tokens, now, resp>>

CDelete(w) ==
    /\ pc[w].stage = "idle"
    /\ \E coach_id \in Coaches, delete_ok \in BOOLEAN :
          LET d == delete_token(store, coach_id, delete_ok)
          IN  /\ store' = d.store
              /\ tm' = [NoOp EXCEPT !.op = "delete", !.coach_id = coach_id,
                                    !.ok = d.deleted]
    /\ UNCHANGED <<connections, processed, credential_store, pc, server, coach_tokens, now, resp>>

ConcNext ==
    \/ \E w \in Workers : CSaveCheck(w)
    \/ \E w \in Workers : CSaveWrite(w)
    \/ \E w \in Workers : CSaveFallback(w)
    \/ \E w \in Workers : CSaveReturn(w)
    \/ \E w \in Workers : CGet(w)
    \/ \E w \in Workers : CDelete(w)
    \/ Tick

ConcSpec == TMInit /\ [][ConcNext]_vars

C21_ExpiryInclusive ==
    (tm.op = "get" /\ tm.ok /\ tm.prior # NoRows /\ tm.prior[1].expires_at # NoExpiry)
        => (tm.result = NoRows <=> tm.at >= tm.prior[1].expires_at)

\* C22: a contacts request that finds the coach's row expired while the row
\* holds a refresh token calls the provider's token endpoint to refresh it
\* and is not answered 401.
C22_ExpiredIsRefreshed ==
    (/\ server = "railway" /\ IsContacts /\ resp.expired = "true"
     /\ store[resp.coach_id] # NoRows
     /\ store[resp.coach_id][1].refresh_token # None)
        => (resp.provider_calls >= 1 /\ resp.code # 401)

\* C23: a successful save over an existing row whose record carries no
\* refresh token (the provider's answer omitted it) leaves the row's
\* refresh token as it was.
C23_RefreshTokenRetained ==
    (/\ tm.op = "save" /\ tm.ok /\ tm.prior # NoRows
     /\ tm.data.refresh_token = None)
        => (/\ tm.result # NoRows
            /\ tm.result[1].refresh_token = tm.prior[1].refresh_token)

\* C24: a contacts request whose downstream call was answered 403 is
\* answered with a 4xx status other than 401 and leaves the coach's row in
\* the table.
C24_ForbiddenIsTerminal4xx ==
    (server = "railway" /\ IsContacts /\ resp.downstream = "403")
        => (/\ resp.code \in 400..499 /\ resp.code # 401
            /\ store[resp.coach_id] # NoRows)

\* C25: a contacts request whose downstream call was answered 429 or 5xx
\* makes the downstream call more than once and leaves the coach's row in
\* the table.
C25_TransientIsRetried ==
    (server = "railway" /\ IsContacts /\ resp.downstream \in {"429", "500"})
        => (resp.downstream_calls > 1 /\ store[resp.coach_id] # NoRows)

(***************************************************************************)
(* The contact list of the contacts route: the loop over the connections   *)
(* of a People API answer (railway_server.py 247-289, the same loop in     *)
(* railway_server_old.py 103-145)                                          *)
(***************************************************************************)
\* the element lists of a multi-valued field; an element is the text under
\* its displayName / value key, "" when the key is missing
RECURSIVE ValueLists(_, _)
ValueLists(values, n) ==
    IF n = 0
    THEN {<<>>}
    ELSE ValueLists(values, n - 1)
         \cup {Append(l, v) : l \in ValueLists(values, n - 1), v \in values}

\* the person at position i of an answer: resourceName is "people/<i>"
Persons(i) ==
    { p \in [resourceName : {[prefix |-> "people/", key |-> i]},
             names : ValueLists({"", "Ann"}, MaxValues),
             emailAddresses : ValueLists({"", "ann@x.org"}, MaxValues),
             phoneNumbers : ValueLists({"", "555"}, MaxValues)] :
        Len(p.names) + Len(p.emailAddresses) + Len(p.phoneNumbers) <= MaxValues + 1 }

\* a field read with the value of the last element of the list
last_value(list) ==
    IF list # <<>> THEN list[Len(list)] ELSE ""

\* lines 262-275: names[0].get('displayName', ''), emails[0].get('value', ''),
\* phones[0].get('value', ''), and "" for an empty or missing list
first_value(list) ==
    IF list # <<>> THEN list[1] ELSE ""

\* lines 253-275: the contact built from a person
contact_of(person) ==
    [id |-> person.resourceName.key,
     name |-> first_value(person.names),
     email |-> first_value(person.emailAddresses),
     phone |-> first_value(person.phoneNumbers),
     type |-> "contact"]

\* the loop keeping a contact only when it has both a name and an email
RECURSIVE process_contacts_both(_)
process_contacts_both(conns) ==
    IF conns = <<>>
    THEN <<>>
    ELSE LET contact == contact_of(Head(conns))
         IN  (IF contact.name # "" /\ contact.email # "" THEN <<contact>> ELSE <<>>)
             \o process_contacts_both(Tail(conns))

\* lines 250-279: processed_contacts after the loop over connections
RECURSIVE process_contacts(_)
process_contacts(conns) ==
    IF conns = <<>>
    THEN <<>>
    ELSE LET contact == contact_of(Head(conns))
         IN  (IF contact.name # "" \/ contact.email # "" THEN <<contact>> ELSE <<>>)
             \o process_contacts(Tail(conns))

\* the body with total counting the entries of the answer
contacts_response_counts_all(conns) ==
    [done |-> TRUE,
     contacts |-> process_contacts(conns),
     total |-> Len(conns)]

\* lines 281-287: the body of the successful answer, contacts and total
contacts_response(conns) ==
    [done |-> TRUE,
     contacts |-> process_contacts(conns),
     total |-> Len(process_contacts(conns))]

\* line 244: the contacts route is about to read the People API's answer
NormInit ==
    /\ server = "railway"
    /\ store = EmptyStore
    /\ coach_tokens = EmptyStore
    /\ credential_store = EmptyCredentialStore
    /\ now = 0
    /\ resp = BaseResp
    /\ tm = NoOp
    /\ pc = [w \in Workers |-> Idle]
    /\ connections = <<>>
    /\ processed = NotProcessed

\* lines 244-248: the connections list of the answer, read entry by entry
ReadConnection ==
    /\ ~processed.done
    /\ Len(connections) < MaxEntries
    /\ \E person \in Persons(Len(connections) + 1) :
          connections' = Append(connections, person)
    /\ UNCHANGED <<processed, credential_store, tm, pc, server, store, coach_tokens, now, resp>>

\* lines 250-289: the loop over the connections read
ProcessContacts ==
    /\ ~processed.done
    /\ processed' = contacts_response(connections)
    /\ UNCHANGED <<connections, credential_store, tm, pc, server, store, coach_tokens, now, resp>>

NormNext ==
    \/ ReadConnection
    \/ ProcessContacts

NormSpec == NormInit /\ [][NormNext]_vars

\* the value of the first element of a list, "" for the empty list
Primary(list) == IF Len(list) > 0 THEN list[1] ELSE ""

\* the first element of a list that carries a value, "" when none does
RECURSIVE FirstPresent(_)
FirstPresent(list) ==
    IF list = <<>> THEN ""
    ELSE IF Head(list) # "" THEN Head(list)
    ELSE FirstPresent(Tail(list))

Ids(contacts) == [i \in DOMAIN contacts |-> contacts[i].id]
Keys(persons) == [i \in DOMAIN persons |-> persons[i].resourceName.key]

\* the entry has a name or an email to show
HasNameOrEmail(person) ==
    Primary(person.names) # "" \/ Primary(person.emailAddresses) # ""

\* C26: the contact list holds, in the order of the answer, exactly the
\* entries whose name or email is not empty: none without both is kept and
\* none with either is dropped.
C26_KeepsNamedOrMailed ==
    processed.done
        => Ids(processed.contacts) = Keys(SelectSeq(connections, HasNameOrEmail))

\* the first entry has only a phone number and is dropped, the second has an
\* email and no name and is kept
C26_Witness ==
    /\ processed.done
    /\ Len(connections) = 2
    /\ connections[1].names = <<>> /\ connections[1].emailAddresses = <<>>
    /\ connections[1].phoneNumbers # <<>>
    /\ connections[2].names = <<>>
    /\ Len(processed.contacts) = 1
    /\ processed.contacts[1].id = 2
    /\ processed.contacts[1].email # ""

\* the entry of the answer a contact was built from
PersonOf(contact) == connections[contact.id]

\* C27: each of name, email and phone of a contact is the first value
\* present in the entry's list: a later element's value when the first
\* element carries none.
C27_FirstPresentValue ==
    processed.done
        => \A i \in DOMAIN processed.contacts :
              LET contact == processed.contacts[i]
              IN  /\ contact.name = FirstPresent(PersonOf(contact).names)
                  /\ contact.email = FirstPresent(PersonOf(contact).emailAddresses)
                  /\ contact.phone = FirstPresent(PersonOf(contact).phoneNumbers)

\* C27 as amended: each of name, email and phone of a contact is the value
\* of the first element of the entry's list, empty when the list is empty or
\* its first element carries no value.
C27_FirstElementValue ==
    processed.done
        => \A i \in DOMAIN processed.contacts :
              LET contact == processed.contacts[i]
              IN  /\ contact.name = Primary(PersonOf(contact).names)
                  /\ contact.email = Primary(PersonOf(contact).emailAddresses)
                  /\ contact.phone = Primary(PersonOf(contact).phoneNumbers)

\* a kept contact whose name is empty although the second element of the
\* entry's names carries one
C27_Witness ==
    /\ processed.done
    /\ \E i \in DOMAIN processed.contacts :
          /\ PersonOf(processed.contacts[i]).names = <<"", "Ann">>
          /\ processed.contacts[i].name = ""
          /\ processed.contacts[i].email # ""

\* C28: a status request of the Supabase-backed server leaves the table as
\* it was and is answered without any call to the provider, to the
\* downstream API, to save_token or to delete_token, whether or not the
\* coach's row is expired.
C28_StatusObservesOnly ==
    [][(server = "railway" /\ resp'.endpoint = "status" /\ now' = now)
          => /\ store' = store
             /\ resp'.provider_calls = 0
             /\ resp'.downstream_calls = 0
             /\ resp'.save_calls = 0
             /\ resp'.delete_calls = 0]_vars

\* a status request found the coach's row expired and the row is still in
\* the table
C28_Witness ==
    /\ server = "railway" /\ IsStatus
    /\ resp.expired = "true" /\ resp.connected = "false"
    /\ store[resp.coach_id] # NoRows
    /\ is_expired(store[resp.coach_id][1], now)

\* C29: a status request whose read of the store succeeded reports connected
\* exactly when the store holds a record for the coach that is not expired
\* at the time of the request.
C29_ConnectedIffUnexpiredRecord ==
    (server \in {"railway", "old"} /\ IsStatus /\ resp.read_ok # "false")
        => (resp.connected = "true" <=> (resp.had_record /\ resp.expired # "true"))

IsDisconnect == resp.endpoint = "disconnect"

\* the delete request of the disconnect got through to the store:
\* delete_token returns True exactly then, delete_credential did not raise
DisconnectReachedStore ==
    IF server = "railway" THEN resp.deleted = "true" ELSE resp.code # 500

\* C30: a disconnect request that reached the store is answered 200 with
\* success, with or without a record for the coach, and its answer says
\* "removed" exactly when there was a record.
C30_DisconnectAlwaysSucceeds ==
    (server \in {"railway", "fastapi"} /\ IsDisconnect /\ DisconnectReachedStore)
        => /\ resp.code = 200
           /\ resp.success = "true"
           /\ (resp.deleted = "true" <=> resp.had_record)

\* C31: once a disconnect for a coach has answered success, the coach has no
\* record, and the request that follows it for the same coach, when it is a
\* contacts request, is answered 401 without a downstream call and, when it
\* is a status request, reports not connected.
C31_DisconnectedStaysOut ==
    [][(/\ server \in {"railway", "old"}
        /\ IsDisconnect /\ resp.success = "true"
        /\ resp'.coach_id = resp.coach_id)
           => /\ Record(resp.coach_id) = NoRows
              /\ resp'.endpoint = "contacts"
                    => (resp'.code = 401 /\ resp'.downstream_calls = 0)
              /\ resp'.endpoint = "status" => resp'.connected = "false"]_vars

\* C32: a save whose check request saw the coach's row and that finds the row
\* deleted when it goes on (a delete has landed in between) does not put a
\* row back: the delete wins.
C32_DeleteWinsOverSave ==
    [][\A w \in Workers :
          (/\ pc[w].stage \in {"checked", "fallback"}
           /\ pc[w].existing
           /\ store[pc[w].coach_id] = NoRows
           /\ pc'[w].stage = "done")
              => store'[pc[w].coach_id] = NoRows]_vars

\* the last request wrote to the table and the write did not get through:
\* save_token, or delete_token, returned False
WriteFailed ==
    \/ IsExchange /\ resp.save_calls = 1 /\ resp.saved = "false"
    \/ IsDisconnect /\ resp.delete_calls = 1 /\ resp.deleted = "false"

\* C33: an exchange or a disconnect of the Supabase-backed server whose write
\* to the table failed is answered with a 5xx status and never with success.
C33_FailedWriteIs5xx ==
    (server = "railway" /\ WriteFailed)
        => (resp.code \in 500..599 /\ resp.success # "true")

\* C34: a callback request leaves the stores as they were, makes no call to
\* the provider's token endpoint or to save_token, and is answered 400 when
\* it carries no code and 200 when it carries one.
C34_CallbackPassesThrough ==
    [][(server \in {"railway", "fastapi"} /\ resp'.endpoint = "callback" /\ resp' # resp)
          => /\ store' = store
             /\ credential_store' = credential_store
             /\ resp'.provider_calls = 0
             /\ resp'.save_calls = 0
             /\ resp'.code = IF resp'.req_code \in {None, ""} THEN 400 ELSE 200]_vars

\* a callback without a code was answered 400 while a coach has a record
C34_Witness ==
    /\ server = "railway"
    /\ resp.endpoint = "callback" /\ resp.req_code = None /\ resp.code = 400
    /\ \E c \in Coaches : store[c] # NoRows


\* the stored token of a coach on the server that is running: the first row
\* of the table on railway_server, the dictionary entry on railway_server_old
StoredFor(c) == IF server = "railway" THEN store[c] ELSE coach_tokens[c]

\* C35: a contacts request calls the People API only when the lookup for
\* its coach returned a record with a non-empty access token, and the
\* bearer it sends is that coach's stored access token; when the coach has
\* no record or an empty access token the People API is not called.
C35_BearerIsOwnToken ==
    [][(/\ server \in {"railway", "old"}
        /\ resp'.endpoint = "contacts" /\ resp' # resp)
          => /\ resp'.downstream_calls \in {0, 1}
             /\ resp'.downstream_calls = 1
                   => /\ StoredFor(resp'.coach_id) # NoRows
                      /\ StoredFor(resp'.coach_id)[1].access_token \notin {None, ""}
                      /\ resp'.bearer = StoredFor(resp'.coach_id)[1].access_token
             /\ (\/ StoredFor(resp'.coach_id) = NoRows
                 \/ StoredFor(resp'.coach_id)[1].access_token \in {None, ""})
                   => resp'.downstream_calls = 0]_vars

\* a contacts request reached the People API with its coach's token while
\* another coach holds a different token
C35_Witness ==
    /\ server = "railway"
    /\ IsContacts /\ resp.downstream_calls = 1
    /\ \E q \in Coaches \ {resp.coach_id} :
          /\ store[q] # NoRows
          /\ store[q][1].access_token \notin {None, "", resp.bearer}

\* C36: every TokenManager call for one coach leaves the rows of every other
\* coach as they were, in every interleaving of two requests: the rows of a
\* coach change only in the write step of a save_token for that coach or in
\* a delete_token for that coach.
C36_OtherCoachesUntouched ==
    [][\A q \in Coaches :
          store'[q] # store[q]
             => \/ \E w \in Workers :
                      /\ pc[w].stage \in {"checked", "fallback"}
                      /\ pc[w].coach_id = q
                      /\ pc'[w].stage = "done"
                \/ /\ pc' = pc
                   /\ tm'.op = "delete"
                   /\ tm'.coach_id = q]_vars

\* one request deleted a coach's rows while the other coach's rows, written
\* by a save_token that has not yet returned, are still there
C36_Witness ==
    /\ tm.op = "delete" /\ tm.ok
    /\ store[tm.coach_id] = NoRows
    /\ \E w \in Workers :
          /\ pc[w].stage = "done" /\ pc[w].saved
          /\ pc[w].coach_id # tm.coach_id
          /\ store[pc[w].coach_id] # NoRows

\* a resourceName without its "people/" prefix
WithoutPeoplePrefix(resourceName) == resourceName.key

\* C38: in a successful contacts answer total is the number of entries of
\* contacts, that number is at most the number of connections of the People
\* API's answer, and the id of every contact is the resourceName of an entry
\* of the answer without its "people/" prefix.
C38_TotalCountsContacts ==
    processed.done
        => /\ processed.total = Len(processed.contacts)
           /\ Len(processed.contacts) <= Len(connections)
           /\ \A i \in DOMAIN processed.contacts :
                 \E j \in DOMAIN connections :
                    /\ j >= i
                    /\ processed.contacts[i].id = WithoutPeoplePrefix(connections[j].resourceName)
                    /\ processed.contacts[i] = contact_of(connections[j])

\* an answer of two entries of which the first is dropped: total is 1 and
\* the contact kept carries the id of the second entry
C38_Witness ==
    /\ processed.done
    /\ Len(connections) = 2
    /\ processed.total = 1
    /\ Len(processed.contacts) = 1
    /\ processed.contacts[1].id = WithoutPeoplePrefix(connections[2].resourceName)
    /\ processed.contacts[1].name # ""

\* the credential a coach id resolves to
CredentialOf(cs, coach_id) == cs[get_user_email_from_coach_id(coach_id)]

\* C37: get_user_email_from_coach_id sends distinct coach ids to distinct
\* credential keys, so a disconnect request of one coach id leaves the
\* credential of every other coach id as it was.
C37_ResolverInjective ==
    [][(/\ server = "fastapi"
        /\ resp'.endpoint = "disconnect" /\ resp' # resp)
          => \A other \in FastCoachIds \ {resp'.coach_id} :
                CredentialOf(credential_store', other)
                   = CredentialOf(credential_store, other)]_vars

====
